---------------------------- MODULE Spec2Model ----------------------------
(***************************************************************************)
(* Model of the Find Orphaned Images plugin (src/main.ts).                 *)
(*                                                                         *)
(* Strings are sequences of one-character strings, so that the string      *)
(* operations of the code (includes, replace, split, trim) are computed    *)
(* and not assumed.  The vault, the link index and the canvas documents    *)
(* are the host's state; the plugin's handlers are the actions.            *)
(***************************************************************************)
EXTENDS Integers, Sequences, FiniteSets, TLC

(***************************************************************************)
(* Bounds of the model.                                                    *)
(***************************************************************************)
\* longest file listing the vault starts with
MaxFiles == 3
\* largest non-negative value of the maxDeleteCount setting
MaxCap == 2

(***************************************************************************)
(* String literals of the program and of the modelled vault.               *)
(***************************************************************************)
Empty == << >>
Space == " "
Slash == "/"
Comma == ","
Pct20 == <<"%","2","0">>
CanvasExt == <<"c","a","n","v","a","s">>
NoteName == <<"O","r","p","h","a","n","e","d"," ","I","m","a","g","e","s"," ","R","e","p","o","r","t",".","m","d">>
Header == <<"#"," ","O","r","p","h","a","n","e","d"," ","I","m","a","g","e","s","\n","\n","T","h","e","s","e"," ","i","m","a","g","e","s"," ","a","r","e"," ","n","o","t"," ","l","i","n","k","e","d"," ","i","n"," ","a","n","y"," ","n","o","t","e",":","\n","\n">>
DefaultImageExtensions == <<"p","n","g",","," ","j","p","g",","," ","j","p","e","g",","," ","g","i","f",","," ","s","v","g",","," ","b","m","p">>

\* paths of the files the modelled vault may hold
PathA == <<"a",".","p","n","g">>
PathB == <<"d","/","b"," ","c",".","p","n","g">>
PathE == <<"e",".","P","N","G">>
PathK == <<"k",".","c","a","n","v","a","s">>
PathL == <<"l",".","c","a","n","v","a","s">>
PathNote == <<"n",".","m","d">>

File(p, e) == [path |-> p, extension |-> e]

\* the files a vault of the model starts with: a TFile has a path and the
\* extension the host derives from it.  The report note is not among them:
\* it enters the vault when the plugin creates it.
FileUniverse ==
    { File(PathA, <<"p","n","g">>),
      File(PathB, <<"p","n","g">>),
      File(PathE, <<"P","N","G">>),
      File(PathK, CanvasExt),
      File(PathL, CanvasExt) }

ReportFile == File(NoteName, <<"m","d">>)

(***************************************************************************)
(* String operations of JavaScript used by the code.                       *)
(***************************************************************************)
\* s.includes(sub)
Includes(s, sub) ==
    \E i \in 0..(Len(s) - Len(sub)) : SubSeq(s, i + 1, i + Len(sub)) = sub

\* s.replace(/ /g, '%20')
RECURSIVE ReplaceSpaces(_)
ReplaceSpaces(s) ==
    IF s = Empty THEN Empty
    ELSE (IF Head(s) = Space THEN Pct20 ELSE <<Head(s)>>) \o ReplaceSpaces(Tail(s))

\* s.replace(/^\//, '')
StripLeadingSlash(s) ==
    IF s # Empty /\ Head(s) = Slash THEN Tail(s) ELSE s

\* s.split(sep): the segments between the separators, in order
RECURSIVE Split(_, _)
Split(s, sep) ==
    IF \A i \in 1..Len(s) : s[i] # sep THEN <<s>>
    ELSE LET k == CHOOSE i \in 1..Len(s) :
                      s[i] = sep /\ \A j \in 1..(i - 1) : s[j] # sep
         IN <<SubSeq(s, 1, k - 1)>> \o Split(SubSeq(s, k + 1, Len(s)), sep)

\* s.trim()
RECURSIVE Trim(_)
Trim(s) ==
    IF s = Empty THEN Empty
    ELSE IF Head(s) = Space THEN Trim(Tail(s))
    ELSE IF s[Len(s)] = Space THEN Trim(SubSeq(s, 1, Len(s) - 1))
    ELSE s

\* array.includes(x)
Contains(seq, x) == \E i \in 1..Len(seq) : seq[i] = x

\* array.join('\n')
RECURSIVE JoinLines(_)
JoinLines(lines) ==
    IF lines = << >> THEN Empty
    ELSE IF Len(lines) = 1 THEN lines[1]
    ELSE lines[1] \o <<"\n">> \o JoinLines(Tail(lines))

\* array.map(file => file.path)
PathsOf(fileList) == [i \in 1..Len(fileList) |-> fileList[i].path]


(***************************************************************************)
(* Canvas documents.  A canvas document is JSON text; the parsed form is   *)
(* kept as tagged values: a property value has a type and, for a string,   *)
(* its characters; a node (or edge) is an object with an ordered list of   *)
(* properties, or null, or a number.                                       *)
(***************************************************************************)
KeyType == <<"t","y","p","e">>
KeyFile == <<"f","i","l","e">>
KeyLabel == <<"l","a","b","e","l">>
TypeFile == <<"f","i","l","e">>
TypeImage == <<"i","m","a","g","e">>
TypeMedia == <<"m","e","d","i","a">>

StrVal(s) == [type |-> "string", str |-> s]
NumVal == [type |-> "number", str |-> <<"1">>]
Prop(k, v) == [key |-> k, val |-> v]
ObjNode(props) == [kind |-> "object", props |-> props]
NullNode == [kind |-> "null", props |-> << >>]

\* the result of JSON.parse on a canvas text: a parse error, or an object
\* whose nodes and edges are arrays or absent
ParseError == [kind |-> "error", hasNodes |-> FALSE, nodes |-> << >>,
               hasEdges |-> FALSE, edges |-> << >>]
Canvas(hasNodes, nodes, hasEdges, edges) ==
    [kind |-> "object", hasNodes |-> hasNodes, nodes |-> nodes,
     hasEdges |-> hasEdges, edges |-> edges]

\* {}
TextClean == <<"{","}">>
\* {"nodes":[{"file":"a.png"}]}
TextRawA == <<"{","\"","n","o","d","e","s","\"",":","[","{","\"","f","i","l","e","\"",":","\"","a",".","p","n","g","\"","}","]","}">>
\* {"nodes":[{"file":"\u0061.png"}]}
TextEscA == <<"{","\"","n","o","d","e","s","\"",":","[","{","\"","f","i","l","e","\"",":","\"","\\","u","0","0","6","1",".","p","n","g","\"","}","]","}">>
\* {"edges":[{"label":"\u0061.png"}]}
TextEdgeA == <<"{","\"","e","d","g","e","s","\"",":","[","{","\"","l","a","b","e","l","\"",":","\"","\\","u","0","0","6","1",".","p","n","g","\"","}","]","}">>
\* {"nodes":[null],"edges":[{"label":"\u0061.png"}]}
TextNullNode == <<"{","\"","n","o","d","e","s","\"",":","[","n","u","l","l","]",",","\"","e","d","g","e","s","\"",":","[","{","\"","l","a","b","e","l","\"",":","\"","\\","u","0","0","6","1",".","p","n","g","\"","}","]","}">>
\* {"nodes":[{"type":"file","file":1}],"edges":[{"label":"\u0061.png"}]}
TextNumFile == <<"{","\"","n","o","d","e","s","\"",":","[","{","\"","t","y","p","e","\"",":","\"","f","i","l","e","\"",",","\"","f","i","l","e","\"",":","1","}","]",",","\"","e","d","g","e","s","\"",":","[","{","\"","l","a","b","e","l","\"",":","\"","\\","u","0","0","6","1",".","p","n","g","\"","}","]","}">>
\* {
TextBad == <<"{">>

EdgeA == ObjNode(<<Prop(KeyLabel, StrVal(PathA))>>)

\* JSON.parse, as the table of the canvas texts of the model: the escape
\* \u0061 of a text is the letter a of the parsed string
ParseTable ==
    { [raw |-> TextClean, data |-> Canvas(FALSE, << >>, FALSE, << >>)],
      [raw |-> TextRawA,
       data |-> Canvas(TRUE, <<ObjNode(<<Prop(KeyFile, StrVal(PathA))>>)>>, FALSE, << >>)],
      [raw |-> TextEscA,
       data |-> Canvas(TRUE, <<ObjNode(<<Prop(KeyFile, StrVal(PathA))>>)>>, FALSE, << >>)],
      [raw |-> TextEdgeA, data |-> Canvas(FALSE, << >>, TRUE, <<EdgeA>>)],
      [raw |-> TextNullNode, data |-> Canvas(TRUE, <<NullNode>>, TRUE, <<EdgeA>>)],
      [raw |-> TextNumFile,
       data |-> Canvas(TRUE, <<ObjNode(<<Prop(KeyType, StrVal(TypeFile)),
                                        Prop(KeyFile, NumVal)>>)>>, TRUE, <<EdgeA>>)] }

JSONparse(text) ==
    IF \E e \in ParseTable : e.raw = text
    THEN (CHOOSE e \in ParseTable : e.raw = text).data
    ELSE ParseError

\* JSON.stringify of a string: quotes and backslashes are escaped
RECURSIVE EscapeString(_)
EscapeString(s) ==
    IF s = Empty THEN Empty
    ELSE (IF Head(s) \in {"\"", "\\"} THEN <<"\\", Head(s)>> ELSE <<Head(s)>>)
         \o EscapeString(Tail(s))

StringifyVal(v) ==
    CASE v.type = "string" -> <<"\"">> \o EscapeString(v.str) \o <<"\"">>
      [] v.type = "number" -> v.str
      [] OTHER -> <<"n","u","l","l">>

RECURSIVE StringifyProps(_)
StringifyProps(props) ==
    IF props = << >> THEN Empty
    ELSE <<"\"">> \o EscapeString(props[1].key) \o <<"\"", ":">>
         \o StringifyVal(props[1].val)
         \o (IF Len(props) > 1 THEN <<",">> ELSE Empty)
         \o StringifyProps(Tail(props))

\* JSON.stringify(edge)
JSONstringify(node) ==
    CASE node.kind = "object" -> <<"{">> \o StringifyProps(node.props) \o <<"}">>
      [] node.kind = "number" -> <<"1">>
      [] OTHER -> <<"n","u","l","l">>

(***************************************************************************)
(* isImageInCanvasFiles (src/main.ts 53-156).                              *)
(***************************************************************************)
\* mutant: the path is put in the note as it is
encodeImagePathPlain(imagePath) == imagePath

\* imagePath.replace(/ /g, '%20')
encodeImagePath(imagePath) == ReplaceSpaces(imagePath)

\* pathToCheck.split('/').pop() || ''
FileNameOf(pathToCheck) ==
    LET parts == Split(pathToCheck, Slash) IN parts[Len(parts)]

\* the path variations searched for, in the order the code builds them
PathVariations(imagePath) ==
    << imagePath,
       StripLeadingSlash(imagePath),
       ReplaceSpaces(imagePath),
       encodeImagePath(imagePath),
       FileNameOf(imagePath) >>

\* some variation is a substring of text
AnyVariationIn(text, variations) ==
    \E i \in 1..Len(variations) : Includes(text, variations[i])

\* node[key], or "undefined"
PropOf(node, key) ==
    IF \E i \in 1..Len(node.props) : node.props[i].key = key
    THEN node.props[CHOOSE i \in 1..Len(node.props) : node.props[i].key = key].val
    ELSE [type |-> "undefined", str |-> Empty]

\* truthiness of a property value
Truthy(v) ==
    CASE v.type = "string" -> v.str # Empty
      [] v.type = "number" -> TRUE
      [] v.type = "object" -> TRUE
      [] OTHER -> FALSE

\* the body of the loop over the nodes for one node: "hit" (return true),
\* "throw" (a TypeError, caught by the handler of the parse) or "none"
NodeCheck(node, variations) ==
    IF node.kind = "null" THEN "throw"
    ELSE IF node.kind # "object" THEN "none"
    ELSE IF \E i \in 1..Len(node.props) :
               /\ node.props[i].val.type = "string"
               /\ AnyVariationIn(node.props[i].val.str, variations)
         THEN "hit"
    ELSE LET type == PropOf(node, KeyType)
             file == PropOf(node, KeyFile)
         IN IF /\ type.type = "string"
               /\ type.str \in {TypeFile, TypeImage, TypeMedia}
               /\ Truthy(file)
            THEN IF file.type = "string"
                 THEN IF AnyVariationIn(file.str, variations) THEN "hit" ELSE "none"
                 ELSE "throw"
            ELSE "none"

\* the loop over canvasData.nodes, from node i on
RECURSIVE NodesCheck(_, _, _)
NodesCheck(nodes, i, variations) ==
    IF i > Len(nodes) THEN "none"
    ELSE LET r == NodeCheck(nodes[i], variations)
         IN IF r = "none" THEN NodesCheck(nodes, i + 1, variations) ELSE r

\* the loop over canvasData.edges
EdgesCheck(edges, variations) ==
    \E i \in 1..Len(edges) : AnyVariationIn(JSONstringify(edges[i]), variations)

\* the structured fallback on one parsed canvas document
StructuredCheck(canvasData, variations) ==
    IF canvasData.kind # "object" THEN FALSE
    ELSE LET n == IF canvasData.hasNodes
                  THEN NodesCheck(canvasData.nodes, 1, variations) ELSE "none"
         IN IF n = "hit" THEN TRUE
            ELSE IF n = "throw" THEN FALSE
            ELSE canvasData.hasEdges /\ EdgesCheck(canvasData.edges, variations)

\* the body of the loop over the canvas files for one file whose read gave
\* canvasContent
CanvasContentMatches(canvasContent, variations) ==
    \/ AnyVariationIn(canvasContent, variations)
    \/ StructuredCheck(JSONparse(canvasContent), variations)


(***************************************************************************)
(* State.                                                                  *)
(***************************************************************************)
VARIABLES
    files,           \* vault.getFiles(): the file listing, in the host's order
    canvasContent,   \* text of every canvas file of the vault
    unreadable,      \* canvas files whose vault.read fails
    resolvedLinks,   \* metadataCache.resolvedLinks: source -> (target -> count)
    reportContent,   \* text of the report note, Empty while it does not exist
    settings,        \* this.settings
    pc,              \* "idle", or "loop" inside the deletion loop
    unlinkedImages,  \* the UnlinkedSet of the last scan
    idx,             \* position of the deletion loop in unlinkedImages
    deleteCount,     \* deleteCount of deleteFirstUnlinkedImage
    notices,         \* the Notices of the current (or last) invocation
    calls,           \* the vault calls of the current (or last) invocation
    skipped,         \* loop positions whose path did not resolve to a TFile
    inv,             \* what the current (or last) invocation was and found
    lastScan,        \* the inputs of the last scan
    prevUnlinked,    \* result of the scan before, when its inputs were the same
    sameAsPrev,      \* the last scan ran on the inputs of the scan before
    tabOpen,         \* the settings tab is displayed: its handlers can fire
    lastChange       \* the text of the last change of the 'Max delete count' field

vars == << files, canvasContent, unreadable, resolvedLinks, reportContent,
           settings, pc, unlinkedImages, idx, deleteCount, notices, calls,
           skipped, inv, lastScan, prevUnlinked, sameAsPrev, tabOpen,
           lastChange >>

(***************************************************************************)
(* The inputs the model draws from.                                        *)
(***************************************************************************)
\* the texts a canvas file of the vault may hold
CanvasTexts ==
    {TextClean, TextRawA, TextEscA, TextEdgeA, TextNullNode, TextNumFile, TextBad}

\* the texts the second canvas file of the vault may hold
SecondCanvasTexts == {TextClean, TextRawA}

\* " PNG ,png"
OtherImageExtensions == <<" ","P","N","G"," ",",","p","n","g">>
ExtensionSettings == {DefaultImageExtensions, OtherImageExtensions}

\* link indices: none, a.png linked from a note, a.png a key whose stored
\* count is 0, and two sources one of which has no links
LinkIndices ==
    { << >>,
      PathNote :> (PathA :> 1),
      PathNote :> (PathA :> 0),
      (PathNote :> << >>) @@ (NoteName :> (PathB :> 1)) }

\* file listings: sequences of distinct files, at most MaxFiles long
Listings ==
    UNION { { l \in [1..n -> FileUniverse] :
                \A i, j \in 1..n : i # j => l[i] # l[j] } : n \in 0..MaxFiles }

Paths(fileList) == {fileList[i].path : i \in 1..Len(fileList)}

\* allFiles.filter(file => file.extension === 'canvas')
CanvasFiles(fileList) == SelectSeq(fileList, LAMBDA f : f.extension = CanvasExt)

(***************************************************************************)
(* The scan (src/main.ts 158-185 and 195-222).                             *)
(***************************************************************************)
\* mutant: the entries of the setting are not trimmed
ImageExtensionsUntrimmed(setting) == Split(setting, Comma)

\* this.settings.imageExtensions.split(',').map(ext => ext.trim())
ImageExtensions(setting) ==
    LET parts == Split(setting, Comma)
    IN [i \in 1..Len(parts) |-> Trim(parts[i])]

\* mutant: every file of the listing is a candidate
ImageFilesUnfiltered(fileList, setting) == fileList

\* allFiles.filter(file => imageExtensions.includes(file.extension))
ImageFiles(fileList, setting) ==
    LET imageExtensions == ImageExtensions(setting)
    IN SelectSeq(fileList, LAMBDA f : Contains(imageExtensions, f.extension))

\* links[imagePath] is truthy: the key is there and its count is not 0
LinkTruthy(links, imagePath) ==
    imagePath \in DOMAIN links /\ links[imagePath] # 0

\* mutant: the report note is not a source the scan consults
LinkedInNotesExceptReport(index, imagePath) ==
    \E source \in (DOMAIN index) \ {NoteName} : LinkTruthy(index[source], imagePath)

\* the loop over Object.entries(metadataCache.resolvedLinks)
LinkedInNotes(index, imagePath) ==
    \E source \in DOMAIN index : LinkTruthy(index[source], imagePath)

\* the loop over the canvas files, from file i on: a failed read skips the file
RECURSIVE CanvasLoop(_, _, _, _, _)

\* mutant: a failed read ends the search
CanvasLoopAborting(canvasFiles, i, content, failing, variations) ==
    IF i > Len(canvasFiles) THEN FALSE
    ELSE LET path == canvasFiles[i].path
         IN IF path \in failing
            THEN FALSE
            ELSE \/ CanvasContentMatches(content[path], variations)
                 \/ CanvasLoop(canvasFiles, i + 1, content, failing, variations)

CanvasLoop(canvasFiles, i, content, failing, variations) ==
    IF i > Len(canvasFiles) THEN FALSE
    ELSE LET path == canvasFiles[i].path
         IN IF path \in failing
            THEN CanvasLoop(canvasFiles, i + 1, content, failing, variations)
            ELSE \/ CanvasContentMatches(content[path], variations)
                 \/ CanvasLoop(canvasFiles, i + 1, content, failing, variations)

isImageInCanvasFiles(imagePath, fileList, content, failing) ==
    CanvasLoop(CanvasFiles(fileList), 1, content, failing, PathVariations(imagePath))

\* mutant: the canvas files are not consulted
IsLinkedNotesOnly(imagePath, fileList, index, content, failing) ==
    LinkedInNotes(index, imagePath)

\* isLinked at the end of the body of the scan loop
IsLinked(imagePath, fileList, index, content, failing) ==
    \/ LinkedInNotes(index, imagePath)
    \/ isImageInCanvasFiles(imagePath, fileList, content, failing)

\* the array unlinkedImages after the scan loop
ScanUnlinked(fileList, index, content, failing, setting) ==
    LET imageFiles == ImageFiles(fileList, setting)
        unlinked == SelectSeq(imageFiles,
                        LAMBDA f : ~IsLinked(f.path, fileList, index, content, failing))
    IN PathsOf(unlinked)

\* mutant: the array of the scan before is appended to, not made anew
ScanAppending ==
    unlinkedImages \o ScanUnlinked(files, resolvedLinks, canvasContent,
                                   unreadable, settings.imageExtensions)

\* the scan on the current state
Scan == ScanUnlinked(files, resolvedLinks, canvasContent, unreadable,
                     settings.imageExtensions)

ScanInputs ==
    [valid |-> TRUE, files |-> files, resolvedLinks |-> resolvedLinks,
     canvasContent |-> canvasContent, unreadable |-> unreadable,
     imageExtensions |-> settings.imageExtensions]

NoScan ==
    [valid |-> FALSE, files |-> << >>, resolvedLinks |-> << >>,
     canvasContent |-> << >>, unreadable |-> {}, imageExtensions |-> Empty]

\* the bookkeeping of a scan: whether it repeats the scan before
ScanGhost ==
    /\ lastScan' = ScanInputs
    /\ sameAsPrev' = (lastScan = ScanInputs)
    /\ prevUnlinked' = IF lastScan = ScanInputs THEN unlinkedImages ELSE << >>

\* the record of an invocation: the handler and its argument
Invocation(op, embedImages) == [op |-> op, embedImages |-> embedImages]

NoInvocation == [op |-> "none", embedImages |-> FALSE]

(***************************************************************************)
(* Initial state: a vault, a link index and loaded settings.               *)
(***************************************************************************)
DEFAULT_SETTINGS ==
    [imageExtensions |-> DefaultImageExtensions, maxDeleteCount |-> -1,
     moveToTrash |-> FALSE]

\* the vault has at most the one canvas file, which holds nothing and can
\* be read
PlainCanvas ==
    /\ PathL \notin Paths(files)
    /\ \A c \in DOMAIN canvasContent : canvasContent[c] = TextClean
    /\ unreadable = {}

\* the vault has no canvas file
NoCanvas == CanvasFiles(files) = << >>

\* the canvas files vary: one canvas file with any of the texts, or two, the
\* first of which holds nothing, does not parse or cannot be read and the
\* second of which can be read and holds nothing or the path of an image
CanvasVaries ==
    /\ PathE \notin Paths(files)
    /\ PathK \in unreadable => canvasContent[PathK] = TextRawA
    /\ PathL \in Paths(files) =>
          /\ canvasContent[PathL] \in SecondCanvasTexts
          /\ PathL \notin unreadable
          /\ PathK \in Paths(files) =>
                \/ PathK \in unreadable
                \/ canvasContent[PathK] \in {TextClean, TextBad}

\* no change of the 'Max delete count' field yet
NoChange == [valid |-> FALSE, value |-> Empty]

\* The vaults and settings the model starts from are of four kinds: the link
\* index varies, or the canvas documents vary, or the deletion settings vary
\* together with the extension filter, or the settings tab is displayed (the
\* settings being DEFAULT_SETTINGS in all but the third).
Init ==
    /\ files \in Listings
    /\ canvasContent \in [Paths(CanvasFiles(files)) -> CanvasTexts]
    /\ unreadable \in SUBSET Paths(CanvasFiles(files))
    /\ resolvedLinks \in LinkIndices
    /\ settings \in [imageExtensions : ExtensionSettings,
                     maxDeleteCount : (-1)..MaxCap,
                     moveToTrash : BOOLEAN]
    /\ tabOpen \in BOOLEAN
    /\ \/ /\ settings = DEFAULT_SETTINGS
          /\ PlainCanvas
          /\ ~tabOpen
       \/ /\ settings = DEFAULT_SETTINGS
          /\ resolvedLinks = << >>
          /\ CanvasVaries
          /\ ~tabOpen
       \/ /\ settings.imageExtensions = OtherImageExtensions
          /\ resolvedLinks = << >>
          /\ NoCanvas
          /\ ~tabOpen
       \/ /\ settings = DEFAULT_SETTINGS
          /\ resolvedLinks = << >>
          /\ NoCanvas
          /\ tabOpen
    /\ reportContent = Empty
    /\ pc = "idle"
    /\ unlinkedImages = << >>
    /\ idx = 1
    /\ deleteCount = 0
    /\ notices = << >>
    /\ calls = << >>
    /\ skipped = {}
    /\ inv = NoInvocation
    /\ lastScan = NoScan
    /\ prevUnlinked = << >>
    /\ sameAsPrev = FALSE
    /\ lastChange = NoChange


(***************************************************************************)
(* The report (src/main.ts 158-193 and 253-283).                           *)
(***************************************************************************)
Notice(kind, n) == [kind |-> kind, n |-> n]
VaultCall(call, path, ok, i, before) ==
    [call |-> call, path |-> path, ok |-> ok, i |-> i, before |-> before]

\* one element of the map of createOrUpdateUnlinkedImagesNote
NoteLine(imagePath, embedImages) ==
    LET encodedPath == encodeImagePath(imagePath)
    IN IF embedImages
       THEN <<"-"," ","!","[","]","(">> \o encodedPath \o <<")">>
       ELSE <<"-"," ","[">> \o imagePath \o <<"]","(">> \o encodedPath \o <<")">>

\* noteContent of createOrUpdateUnlinkedImagesNote
NoteContent(unlinked, embedImages) ==
    Header \o JoinLines([i \in 1..Len(unlinked) |->
                             NoteLine(unlinked[i], embedImages)])

\* the notices of findUnlinkedImages for a non-empty result: the one of
\* createOrUpdateUnlinkedImagesNote, then the one after the call returns
ReportNotices(written, n) ==
    << Notice(IF written THEN "noteWritten" ELSE "noteFailed", 0),
       Notice("found", n) >>

\* findUnlinkedImages(embedImages) with a non-empty result; ok is whether
\* vault.modify or vault.create succeeds
FindUnlinkedImagesReport(embedImages, ok) ==
    LET unlinked == Scan
        existing == NoteName \in Paths(files)
        noteContent == NoteContent(unlinked, embedImages)
    IN /\ pc = "idle"
       /\ Len(unlinked) > 0
       /\ unlinkedImages' = unlinked
       /\ ScanGhost
       /\ inv' = Invocation("report", embedImages)
       /\ calls' = << VaultCall(IF existing THEN "modify" ELSE "create",
                                NoteName, ok, 0, 0) >>
       /\ IF ok
          THEN /\ reportContent' = noteContent
               /\ files' = IF existing THEN files ELSE Append(files, ReportFile)
          ELSE UNCHANGED << reportContent, files >>
       /\ notices' = ReportNotices(ok, Len(unlinked))
       /\ idx' = 1
       /\ deleteCount' = 0
       /\ skipped' = {}
       /\ UNCHANGED << tabOpen, lastChange >>
       /\ UNCHANGED << canvasContent, unreadable, resolvedLinks, settings, pc >>

\* mutant: the note is written for an empty result too
FindUnlinkedImagesNoneWrites(embedImages) ==
    LET unlinked == Scan
        existing == NoteName \in Paths(files)
    IN /\ pc = "idle"
       /\ Len(unlinked) = 0
       /\ unlinkedImages' = unlinked
       /\ ScanGhost
       /\ inv' = Invocation("report", embedImages)
       /\ calls' = << VaultCall(IF existing THEN "modify" ELSE "create",
                                NoteName, TRUE, 0, 0) >>
       /\ reportContent' = NoteContent(unlinked, embedImages)
       /\ files' = IF existing THEN files ELSE Append(files, ReportFile)
       /\ notices' = ReportNotices(TRUE, 0)
       /\ idx' = 1
       /\ deleteCount' = 0
       /\ skipped' = {}
       /\ UNCHANGED << tabOpen, lastChange >>
       /\ UNCHANGED << canvasContent, unreadable, resolvedLinks, settings, pc >>

\* findUnlinkedImages(embedImages) with an empty result
FindUnlinkedImagesNone(embedImages) ==
    LET unlinked == Scan
    IN /\ pc = "idle"
       /\ Len(unlinked) = 0
       /\ unlinkedImages' = unlinked
       /\ ScanGhost
       /\ inv' = Invocation("report", embedImages)
       /\ calls' = << >>
       /\ notices' = << Notice("allLinked", 0) >>
       /\ idx' = 1
       /\ deleteCount' = 0
       /\ skipped' = {}
       /\ UNCHANGED << tabOpen, lastChange >>
       /\ UNCHANGED << files, canvasContent, unreadable, resolvedLinks,
                       reportContent, settings, pc >>

(***************************************************************************)
(* The deletion (src/main.ts 195-251).                                     *)
(***************************************************************************)
\* the vault without the file of that path
RemovePath(fileList, path) == SelectSeq(fileList, LAMBDA f : f.path # path)

Restrict(f, S) == [x \in (DOMAIN f) \cap S |-> f[x]]

\* the host's state after the file of that path is gone
FileGone(path) ==
    LET left == RemovePath(files, path)
    IN /\ files' = left
       /\ canvasContent' = Restrict(canvasContent, Paths(left))
       /\ unreadable' = unreadable \cap Paths(left)
       /\ reportContent' = IF path = NoteName THEN Empty ELSE reportContent

\* mutant: the break comes one deletion late
CapReachedLate(maxDeleteCount, count) ==
    maxDeleteCount # -1 /\ count > maxDeleteCount

\* mutant: the loop never breaks
CapNeverReached(maxDeleteCount, count) == FALSE

\* the guard of the break of the deletion loop
CapReached(maxDeleteCount, count) ==
    maxDeleteCount # -1 /\ count >= maxDeleteCount

\* deleteFirstUnlinkedImage up to the deletion loop: the scan
DeleteStart ==
    /\ pc = "idle"
    /\ unlinkedImages' = Scan
    /\ ScanGhost
    /\ inv' = Invocation("delete", FALSE)
    /\ pc' = "loop"
    /\ idx' = 1
    /\ deleteCount' = 0
    /\ notices' = << >>
    /\ calls' = << >>
    /\ skipped' = {}
    /\ UNCHANGED << tabOpen, lastChange >>
    /\ UNCHANGED << files, canvasContent, unreadable, resolvedLinks,
                    reportContent, settings >>

InLoop ==
    /\ pc = "loop"
    /\ idx <= Len(unlinkedImages)
    /\ ~CapReached(settings.maxDeleteCount, deleteCount)

\* mutant: a failed vault call ends the loop
DeleteAttemptAborting(ok) ==
    LET imagePath == unlinkedImages[idx]
        call == IF settings.moveToTrash THEN "trash" ELSE "delete"
    IN /\ InLoop
       /\ imagePath \in Paths(files)
       /\ calls' = Append(calls, VaultCall(call, imagePath, ok, idx, deleteCount))
       /\ IF ok
          THEN /\ FileGone(imagePath)
               /\ notices' = Append(notices,
                      Notice(IF settings.moveToTrash THEN "trashed" ELSE "deleted", idx))
               /\ deleteCount' = deleteCount + 1
               /\ pc' = pc
          ELSE /\ notices' = Append(notices, Notice("deleteFailed", 0))
               /\ pc' = "idle"
               /\ UNCHANGED << files, canvasContent, unreadable, reportContent,
                               deleteCount >>
       /\ idx' = idx + 1
       /\ UNCHANGED << tabOpen, lastChange >>
       /\ UNCHANGED << resolvedLinks, settings, unlinkedImages, skipped, inv,
                       lastScan, prevUnlinked, sameAsPrev >>

\* one iteration whose path resolves to a TFile; ok is whether vault.trash
\* or vault.delete succeeds
DeleteAttempt(ok) ==
    LET imagePath == unlinkedImages[idx]
        call == IF settings.moveToTrash THEN "trash" ELSE "delete"
    IN /\ InLoop
       /\ imagePath \in Paths(files)
       /\ calls' = Append(calls, VaultCall(call, imagePath, ok, idx, deleteCount))
       /\ IF ok
          THEN /\ FileGone(imagePath)
               /\ notices' = Append(notices,
                      Notice(IF settings.moveToTrash THEN "trashed" ELSE "deleted", idx))
               /\ deleteCount' = deleteCount + 1
          ELSE /\ notices' = Append(notices, Notice("deleteFailed", 0))
               /\ UNCHANGED << files, canvasContent, unreadable, reportContent,
                               deleteCount >>
       /\ idx' = idx + 1
       /\ UNCHANGED << tabOpen, lastChange >>
       /\ UNCHANGED << resolvedLinks, settings, pc, unlinkedImages, skipped, inv,
                       lastScan, prevUnlinked, sameAsPrev >>

\* one iteration whose path no longer resolves to a TFile
DeleteSkip ==
    /\ InLoop
    /\ unlinkedImages[idx] \notin Paths(files)
    /\ skipped' = skipped \cup {idx}
    /\ idx' = idx + 1
    /\ UNCHANGED << tabOpen, lastChange >>
    /\ UNCHANGED << files, canvasContent, unreadable, resolvedLinks,
                    reportContent, settings, pc, unlinkedImages, deleteCount,
                    notices, calls, inv, lastScan, prevUnlinked, sameAsPrev >>

\* the end of the loop (exhausted, or the break) and the final notice
DeleteExit ==
    /\ pc = "loop"
    /\ ~InLoop
    /\ notices' = IF deleteCount = 0
                  THEN Append(notices, Notice("nothingDeleted", 0)) ELSE notices
    /\ pc' = "idle"
    /\ UNCHANGED << tabOpen, lastChange >>
    /\ UNCHANGED << files, canvasContent, unreadable, resolvedLinks,
                    reportContent, settings, unlinkedImages, idx, deleteCount,
                    calls, skipped, inv, lastScan, prevUnlinked, sameAsPrev >>

\* the host: the file the deletion loop is about to resolve has vanished
\* since the scan (when it vanished makes no difference to the loop)
FileVanishes ==
    /\ InLoop
    /\ unlinkedImages[idx] \in Paths(files)
    /\ FileGone(unlinkedImages[idx])
    /\ UNCHANGED << tabOpen, lastChange >>
    /\ UNCHANGED << resolvedLinks, settings, pc, unlinkedImages, idx,
                    deleteCount, notices, calls, skipped, inv, lastScan,
                    prevUnlinked, sameAsPrev >>

\* the targets of the links of the report note: the files of the vault
\* whose encoded path is the destination of a list line of the note
ReportLinks ==
    { p \in Paths(files) :
        Includes(reportContent, <<"(">> \o encodeImagePath(p) \o <<")">>) }

\* the link index once the host has recorded the links of the report note
IndexWithReport ==
    [source \in (DOMAIN resolvedLinks) \cup {NoteName} |->
        IF source = NoteName THEN [p \in ReportLinks |-> 1]
        ELSE resolvedLinks[source]]

\* the host: the metadata cache records the links of the report note once
\* the plugin has written it
HostIndexesReport ==
    /\ pc = "idle"
    /\ inv.op = "report" /\ Len(calls) = 1 /\ calls[1].ok
    /\ NoteName \in Paths(files)
    /\ resolvedLinks # IndexWithReport
    /\ resolvedLinks' = IndexWithReport
    /\ UNCHANGED << tabOpen, lastChange >>
    /\ UNCHANGED << files, canvasContent, unreadable, reportContent, settings,
                    pc, unlinkedImages, idx, deleteCount, notices, calls,
                    skipped, inv, lastScan, prevUnlinked, sameAsPrev >>

(***************************************************************************)
(* The settings tab (src/main.ts 377-386).                                 *)
(***************************************************************************)
WhiteSpace == {" ", "\t", "\n"}
DigitChars == <<"0","1","2","3","4","5","6","7","8","9">>
IsDigit(c) == \E d \in 1..10 : DigitChars[d] = c
DigitValue(c) == (CHOOSE d \in 1..10 : DigitChars[d] = c) - 1

\* the number parseInt gives: NaN, or an integer
NaN == [nan |-> TRUE, n |-> 0]
Number(n) == [nan |-> FALSE, n |-> n]

\* the text without its leading white space
RECURSIVE SkipWhiteSpace(_)
SkipWhiteSpace(s) ==
    IF s # Empty /\ Head(s) \in WhiteSpace THEN SkipWhiteSpace(Tail(s)) ELSE s

\* the longest prefix of the text that is made of digits
RECURSIVE DigitsPrefix(_)
DigitsPrefix(s) ==
    IF s # Empty /\ IsDigit(Head(s)) THEN <<Head(s)>> \o DigitsPrefix(Tail(s))
    ELSE Empty

\* the value of a text of decimal digits
RECURSIVE DecimalValue(_)
DecimalValue(ds) ==
    IF ds = Empty THEN 0
    ELSE 10 * DecimalValue(SubSeq(ds, 1, Len(ds) - 1)) + DigitValue(ds[Len(ds)])

\* parseInt(value, 10)
parseInt(value) ==
    LET t == SkipWhiteSpace(value)
        negative == t # Empty /\ Head(t) = "-"
        u == IF t # Empty /\ Head(t) \in {"+", "-"} THEN Tail(t) ELSE t
        ds == DigitsPrefix(u)
    IN IF ds = Empty THEN NaN
       ELSE Number(IF negative THEN 0 - DecimalValue(ds) ELSE DecimalValue(ds))

\* mutant: only NaN gives way to the default
OrElseOnlyNaN(x, default) == IF x.nan THEN default ELSE x.n

\* x || default: NaN and 0 (and -0) are falsy
OrElse(x, default) == IF x.nan \/ x.n = 0 THEN default ELSE x.n

\* the texts the user gives the 'Max delete count' field: "0", "x", "-2", " 1x"
MaxDeleteTexts == { <<"0">>, <<"x">>, <<"-","2">>, <<" ","1","x">> }

\* onChange of the 'Max delete count' field, between two invocations;
\* saveSettings writes the settings out and changes nothing the plugin reads
OnChangeMaxDeleteCount(value) ==
    /\ pc = "idle"
    /\ tabOpen
    /\ settings' = [settings EXCEPT !.maxDeleteCount = OrElse(parseInt(value), -1)]
    /\ lastChange' = [valid |-> TRUE, value |-> value]
    /\ inv' = Invocation("onChange", FALSE)
    /\ notices' = << >>
    /\ calls' = << >>
    /\ skipped' = {}
    /\ idx' = 1
    /\ deleteCount' = 0
    /\ UNCHANGED << files, canvasContent, unreadable, resolvedLinks,
                    reportContent, pc, unlinkedImages, lastScan, prevUnlinked,
                    sameAsPrev, tabOpen >>

Next ==
    \/ \E embedImages \in BOOLEAN, ok \in BOOLEAN :
          FindUnlinkedImagesReport(embedImages, ok)
    \/ \E embedImages \in BOOLEAN : FindUnlinkedImagesNone(embedImages)
    \/ DeleteStart
    \/ \E ok \in BOOLEAN : DeleteAttempt(ok)
    \/ DeleteSkip
    \/ DeleteExit
    \/ FileVanishes
    \/ HostIndexesReport
    \/ \E value \in MaxDeleteTexts : OnChangeMaxDeleteCount(value)

Spec == Init /\ [][Next]_vars


(***************************************************************************)
(* Properties.                                                             *)
(***************************************************************************)
\* a scan has run; lastScan holds its inputs and unlinkedImages its result
Scanned == lastScan.valid

\* the deletion action has run to its end
DeleteDone == pc = "idle" /\ inv.op = "delete"

\* the report action has run, with a non-empty result and this outcome of
\* the write of the note
Reported(ok) ==
    /\ inv.op = "report"
    /\ Len(calls) = 1
    /\ calls[1].ok = ok

Successes == Cardinality({k \in 1..Len(calls) : calls[k].ok})
Failures == Cardinality({k \in 1..Len(calls) : ~calls[k].ok})
Attempted == {calls[k].i : k \in 1..Len(calls)}

\* C1 (as claimed): a path that is a target key of some source of the link
\* index, whatever count is stored under it, is not in the UnlinkedSet of
\* the scan.
C1_KeyNeverUnlinked ==
    Scanned =>
        \A source \in DOMAIN lastScan.resolvedLinks :
            \A target \in DOMAIN lastScan.resolvedLinks[source] :
                ~Contains(unlinkedImages, target)

\* C2 (as claimed): a path that is a substring of the raw text of any canvas
\* document of the vault is not in the UnlinkedSet of the scan.
C2_InCanvasTextNeverUnlinked ==
    Scanned =>
        \A c \in DOMAIN lastScan.canvasContent :
            \A k \in 1..Len(unlinkedImages) :
                ~Includes(lastScan.canvasContent[c], unlinkedImages[k])

\* C2 (amended): a path that is a substring of the raw text of a canvas
\* document whose read succeeds is not in the UnlinkedSet of the scan.
C2_InReadableCanvasTextNeverUnlinked ==
    Scanned =>
        \A c \in (DOMAIN lastScan.canvasContent) \ lastScan.unreadable :
            \A k \in 1..Len(unlinkedImages) :
                ~Includes(lastScan.canvasContent[c], unlinkedImages[k])

\* a scan found other orphans while a candidate that no note links is
\* written in the text of a readable canvas document
C2_Witness ==
    /\ Scanned
    /\ unlinkedImages # << >>
    /\ \E c \in (DOMAIN lastScan.canvasContent) \ lastScan.unreadable :
       \E i \in 1..Len(lastScan.files) :
          /\ Contains(ImageExtensions(lastScan.imageExtensions),
                      lastScan.files[i].extension)
          /\ ~LinkedInNotes(lastScan.resolvedLinks, lastScan.files[i].path)
          /\ Includes(lastScan.canvasContent[c], lastScan.files[i].path)

\* C3 (as claimed): with maxDeleteCount = m >= 0 and an UnlinkedSet longer
\* than m, one invocation of the deletion makes exactly m vault calls,
\* whether they succeed or fail.
C3_ExactlyCapAttempts ==
    ( /\ DeleteDone
      /\ settings.maxDeleteCount >= 0
      /\ Len(unlinkedImages) > settings.maxDeleteCount )
    => Len(calls) = settings.maxDeleteCount

\* C3 (amended): with maxDeleteCount = m >= 0 and an UnlinkedSet longer than
\* m, at most m vault calls succeed, fewer than m only when the list is
\* exhausted; the calls made are the successful ones and the failed ones
\* before the m-th success, so exactly m calls are made when none fails and
\* every path examined resolves.
C3_CapCountsSuccesses ==
    ( /\ DeleteDone
      /\ settings.maxDeleteCount >= 0
      /\ Len(unlinkedImages) > settings.maxDeleteCount )
    => /\ Successes <= settings.maxDeleteCount
       /\ Successes < settings.maxDeleteCount => idx > Len(unlinkedImages)
       /\ \A k \in 1..Len(calls) : calls[k].before < settings.maxDeleteCount
       /\ (Failures = 0 /\ skipped = {}) => Len(calls) = settings.maxDeleteCount

\* the cap stopped a deletion none of whose calls failed before the end of
\* a longer list
C3_Witness ==
    /\ DeleteDone
    /\ settings.maxDeleteCount >= 1
    /\ Len(unlinkedImages) > settings.maxDeleteCount
    /\ Failures = 0
    /\ skipped = {}
    /\ Len(calls) = settings.maxDeleteCount

\* C4: with maxDeleteCount = m >= 0, at every point of the deletion the
\* count of successful calls is at most m, no call is made once it is m,
\* and the calls take the paths of the UnlinkedSet in scan order.
C4_CapAndOrder ==
    (inv.op = "delete" /\ settings.maxDeleteCount >= 0)
    => /\ deleteCount <= settings.maxDeleteCount
       /\ deleteCount = Successes
       /\ \A k \in 1..Len(calls) :
             /\ calls[k].before < settings.maxDeleteCount
             /\ calls[k].i \in 1..Len(unlinkedImages)
             /\ calls[k].path = unlinkedImages[calls[k].i]
             /\ calls[k].before = Cardinality({j \in 1..(k - 1) : calls[j].ok})
       /\ \A k, l \in 1..Len(calls) : k < l => calls[k].i < calls[l].i

\* the deletion stopped at the cap with elements of the UnlinkedSet left
C4_Witness ==
    /\ DeleteDone
    /\ settings.maxDeleteCount >= 1
    /\ deleteCount = settings.maxDeleteCount
    /\ idx <= Len(unlinkedImages)
    /\ Failures > 0

\* C5: with maxDeleteCount = -1 every element of the UnlinkedSet the loop
\* has passed either got one vault call or did not resolve to a file; each
\* failed call gave one failure notice, and the loop ends only after the
\* last element.
C5_UnboundedAttemptsAll ==
    (inv.op = "delete" /\ settings.maxDeleteCount = -1)
    => /\ Attempted \cup skipped = 1..(idx - 1)
       /\ Attempted \cap skipped = {}
       /\ Cardinality(Attempted) = Len(calls)
       /\ \A i \in skipped : unlinkedImages[i] \notin Paths(files)
       /\ Cardinality({n \in 1..Len(notices) : notices[n].kind = "deleteFailed"})
             = Failures
       /\ pc = "idle" => idx = Len(unlinkedImages) + 1

\* an unbounded deletion made a call after a failed call and after a path
\* that did not resolve
C5_Witness ==
    /\ DeleteDone
    /\ settings.maxDeleteCount = -1
    /\ \E k, l \in 1..Len(calls) : k < l /\ ~calls[k].ok
    /\ \E i \in skipped : \E k \in 1..Len(calls) : calls[k].i > i


\* the path with every space replaced by %20, built from its last character
RECURSIVE Encoded(_)
Encoded(path) ==
    IF Len(path) = 0 THEN << >>
    ELSE Encoded(SubSeq(path, 1, Len(path) - 1))
         \o (IF path[Len(path)] = " " THEN <<"%","2","0">> ELSE <<path[Len(path)]>>)

\* the list line of the report for a path
ListLine(path, embed) ==
    IF embed
    THEN <<"-"," ","!","[","]","(">> \o Encoded(path) \o <<")">>
    ELSE <<"-"," ","[">> \o path \o <<"]","(">> \o Encoded(path) \o <<")">>

\* the list lines of the paths from position i on, one per line
RECURSIVE ListLines(_, _, _)
ListLines(paths, i, embed) ==
    IF i > Len(paths) THEN << >>
    ELSE (IF i > 1 THEN <<"\n">> ELSE << >>)
         \o ListLine(paths[i], embed) \o ListLines(paths, i + 1, embed)

\* C6: after a report whose write succeeded, the report note is in the
\* vault once and its content is the header followed by one list line per
\* path of the (non-empty) UnlinkedSet, in its order, in the form the embed
\* flag selects, whether the note was created or modified.
C6_ReportContent ==
    Reported(TRUE)
    => /\ Len(unlinkedImages) > 0
       /\ reportContent = Header \o ListLines(unlinkedImages, 1, inv.embedImages)
       /\ Cardinality({i \in 1..Len(files) : files[i].path = NoteName}) = 1

\* a report of two orphans, one with a space in its path, replaced the
\* content of a note that existed
C6_Witness ==
    /\ Reported(TRUE)
    /\ calls[1].call = "modify"
    /\ Len(unlinkedImages) = 2
    /\ unlinkedImages[2] = PathB

\* C7 (as claimed): when the write of the report note fails, the failure
\* notice is the only notice of the invocation.
C7_OnlyFailureNotice ==
    Reported(FALSE) => notices = << Notice("noteFailed", 0) >>

\* C8: a report invocation whose scan finds nothing makes no vault call,
\* leaves the files and the report note as they were, and gives the
\* "All images are linked!" notice alone.
C8_EmptyWritesNothing ==
    [][ (pc = "idle" /\ pc' = "idle" /\ inv'.op = "report" /\ unlinkedImages' = << >>)
        => /\ calls' = << >>
           /\ files' = files
           /\ reportContent' = reportContent
           /\ canvasContent' = canvasContent
           /\ notices' = << Notice("allLinked", 0) >> ]_vars

\* a report found every candidate linked while a report note with content
\* existed
C8_Witness ==
    /\ inv.op = "report"
    /\ unlinkedImages = << >>
    /\ NoteName \in Paths(files)
    /\ reportContent # << >>
    /\ ImageFiles(files, settings.imageExtensions) # << >>

\* ext is what is left of the segment s of the setting once the spaces
\* around it are taken off
TrimsTo(s, ext) ==
    /\ ext # << >> => (ext[1] # " " /\ ext[Len(ext)] # " ")
    /\ \E a \in 0..(Len(s) - Len(ext)) :
          /\ \A i \in 1..a : s[i] = " "
          /\ SubSeq(s, a + 1, a + Len(ext)) = ext
          /\ \A i \in (a + Len(ext) + 1)..Len(s) : s[i] = " "

\* ext is an entry of the setting: the trimmed text between two
\* neighbouring commas (or ends) of the setting
IsEntry(setting, ext) ==
    \E lo \in 1..(Len(setting) + 1) :
        /\ lo = 1 \/ setting[lo - 1] = ","
        /\ \E hi \in (lo - 1)..Len(setting) :
              /\ hi = Len(setting) \/ setting[hi + 1] = ","
              /\ \A i \in lo..hi : setting[i] # ","
              /\ TrimsTo(SubSeq(setting, lo, hi), ext)

\* C9: the candidates of the scan are the files whose extension is, case
\* and all, an entry of the imageExtensions setting, and every element of
\* the UnlinkedSet is the path of a candidate.
C9_CandidatesByExactExtension ==
    Scanned
    => /\ \A i \in 1..Len(lastScan.files) :
             Contains(ImageFiles(lastScan.files, lastScan.imageExtensions),
                      lastScan.files[i])
             <=> IsEntry(lastScan.imageExtensions, lastScan.files[i].extension)
       /\ \A k \in 1..Len(unlinkedImages) :
             \E i \in 1..Len(lastScan.files) :
                /\ lastScan.files[i].path = unlinkedImages[k]
                /\ IsEntry(lastScan.imageExtensions, lastScan.files[i].extension)

\* a scan with the default filter left out an unreferenced file of
\* extension PNG and found another orphan
C9_Witness ==
    /\ Scanned
    /\ lastScan.imageExtensions = DefaultImageExtensions
    /\ lastScan.resolvedLinks = << >>
    /\ DOMAIN lastScan.canvasContent = {}
    /\ PathE \in Paths(lastScan.files)
    /\ unlinkedImages # << >>
    /\ ~Contains(unlinkedImages, PathE)

Orphans ==
    { i \in 1..Len(lastScan.files) :
        /\ IsEntry(lastScan.imageExtensions, lastScan.files[i].extension)
        /\ \A source \in DOMAIN lastScan.resolvedLinks :
              lastScan.files[i].path \notin DOMAIN lastScan.resolvedLinks[source]
        /\ ~isImageInCanvasFiles(lastScan.files[i].path, lastScan.files,
                                 lastScan.canvasContent, lastScan.unreadable) }

\* the positions of the listing of the last scan whose file is a candidate
\* for which the resolver of the code returns false
Unresolved ==
    { i \in 1..Len(lastScan.files) :
        /\ IsEntry(lastScan.imageExtensions, lastScan.files[i].extension)
        /\ ~IsLinked(lastScan.files[i].path, lastScan.files,
                     lastScan.resolvedLinks, lastScan.canvasContent,
                     lastScan.unreadable) }

\* the k-th smallest element of a set of positions
Nth(S, k) == CHOOSE i \in S : Cardinality({j \in S : j < i}) = k - 1

\* the paths of the listing of the last scan at the positions S, in listing
\* order, each once
SubListing(S) == [k \in 1..Cardinality(S) |-> lastScan.files[Nth(S, k)].path]

\* C11 (as claimed): the UnlinkedSet of a scan is the subsequence of the
\* file listing, in listing order and each once, of the candidates that are
\* a target of no link-index entry and that the canvas search does not match.
C11_ExactSubsequence ==
    Scanned => unlinkedImages = SubListing(Orphans)

\* C11 (what holds): the UnlinkedSet is that subsequence for the candidates
\* the resolver of the code returns false for.
C11_SubsequenceOfUnresolved ==
    Scanned => unlinkedImages = SubListing(Unresolved)

\* the positions of the listing of the last scan whose file is a candidate
\* that no note links: the files the canvas search was called for
Searched ==
    { i \in 1..Len(lastScan.files) :
        /\ IsEntry(lastScan.imageExtensions, lastScan.files[i].extension)
        /\ ~LinkedInNotes(lastScan.resolvedLinks, lastScan.files[i].path) }

\* the canvas files of the last scan whose read succeeded
Readable == (DOMAIN lastScan.canvasContent) \ lastScan.unreadable

\* the canvas files of the last scan whose read failed or whose text does
\* not parse
Failing ==
    { c \in DOMAIN lastScan.canvasContent :
        \/ c \in lastScan.unreadable
        \/ JSONparse(lastScan.canvasContent[c]) = ParseError }

\* position of the file of that path in the listing of the last scan
PositionOf(path) == CHOOSE i \in 1..Len(lastScan.files) : lastScan.files[i].path = path

\* C12: a canvas document whose read or parse fails does not end the canvas
\* search: a path one of whose variations is in the text of a readable canvas
\* document is found even when failing documents come before that document,
\* and a path that no readable document matches is in the UnlinkedSet of a
\* scan that ran to its end.
C12_FailuresIsolated ==
    Scanned =>
        \A i \in Searched :
            LET path == lastScan.files[i].path
                variations == PathVariations(path)
            IN /\ (\E c \in Readable :
                      AnyVariationIn(lastScan.canvasContent[c], variations))
                  => ~Contains(unlinkedImages, path)
               /\ (\A c \in Readable :
                      ~CanvasContentMatches(lastScan.canvasContent[c], variations))
                  => Contains(unlinkedImages, path)

\* a scan met a canvas document whose read failed or whose text does not
\* parse before a readable document that names a.png, and did not
\* report a.png
C12_Witness ==
    /\ Scanned
    /\ PathA \in {lastScan.files[i].path : i \in Searched}
    /\ ~Contains(unlinkedImages, PathA)
    /\ \E c \in Failing, d \in Readable :
          /\ PositionOf(c) < PositionOf(d)
          /\ Includes(lastScan.canvasContent[d], PathA)

\* C13 (as claimed): when the text of a readable canvas document holds no
\* variation of a path and parses, and the serialized text of one of its
\* edges holds a variation, the path is not in the UnlinkedSet, whatever the
\* nodes of the document are.
C13_EdgeHitAlwaysFound ==
    Scanned =>
        \A i \in Searched : \A c \in Readable :
            LET variations == PathVariations(lastScan.files[i].path)
                text == lastScan.canvasContent[c]
                canvasData == JSONparse(text)
            IN ( /\ ~AnyVariationIn(text, variations)
                 /\ canvasData.kind = "object"
                 /\ \E e \in 1..Len(canvasData.edges) :
                       AnyVariationIn(JSONstringify(canvasData.edges[e]), variations) )
               => ~Contains(unlinkedImages, lastScan.files[i].path)

\* the paths of the listing of the last scan whose file is a candidate that
\* no note links and that no readable canvas document matches
FoundUnreferenced ==
    { lastScan.files[i].path : i \in
        { j \in Searched :
            \A c \in Readable :
                ~CanvasContentMatches(lastScan.canvasContent[c],
                                      PathVariations(lastScan.files[j].path)) } }

\* C14: every file handed to vault.delete or vault.trash has an extension of
\* the filter and was found unreferenced, by the link index and by the canvas
\* search, in the scan of the deletion invocation that makes the call; an
\* invocation of the report makes no call but the write of the report note.
C14_OnlyScannedOrphansDeleted ==
    /\ inv.op = "delete" =>
          \A k \in 1..Len(calls) :
             /\ calls[k].call = (IF settings.moveToTrash THEN "trash" ELSE "delete")
             /\ calls[k].path \in FoundUnreferenced
    /\ inv.op = "report" =>
          \A k \in 1..Len(calls) :
             /\ calls[k].call \in {"create", "modify"}
             /\ calls[k].path = NoteName

\* after a report, a deletion removed an orphan and left in the vault a
\* candidate that a note links
C14_Witness ==
    /\ DeleteDone
    /\ reportContent # Empty
    /\ \E k \in 1..Len(calls) : calls[k].ok /\ calls[k].path \notin Paths(files)
    /\ \E i \in 1..Len(files) :
          /\ IsEntry(settings.imageExtensions, files[i].extension)
          /\ LinkedInNotes(resolvedLinks, files[i].path)

\* the paths the link index of the last scan holds, with a count that is not
\* 0, as targets of the report note
LinkedFromReport ==
    IF NoteName \in DOMAIN lastScan.resolvedLinks
    THEN { p \in DOMAIN lastScan.resolvedLinks[NoteName] :
             lastScan.resolvedLinks[NoteName][p] # 0 }
    ELSE {}

\* C15: the report note is a source of the link index like any other: a path
\* the index holds as a target of the report note is not in the UnlinkedSet
\* of the scan, so it is not reported again and no deletion call is made for
\* it.
C15_ReportLinksCount ==
    Scanned =>
        \A p \in LinkedFromReport :
            /\ ~Contains(unlinkedImages, p)
            /\ inv.op = "delete" => \A k \in 1..Len(calls) : calls[k].path # p

\* a report listed a.png, the host recorded the links of the report note,
\* and the deletion that followed left a.png, which nothing else references,
\* in the vault
C15_Witness ==
    /\ DeleteDone
    /\ DOMAIN lastScan.resolvedLinks = {NoteName}
    /\ DOMAIN lastScan.canvasContent = {}
    /\ PathA \in LinkedFromReport
    /\ Includes(reportContent, PathA)
    /\ PathA \in Paths(files)
    /\ IsEntry(lastScan.imageExtensions, <<"p","n","g">>)
    /\ calls = << >>

\* what the claim gives for the texts of the model: the integer the text
\* starts with when that is not 0, and -1 otherwise
ClaimedCap ==
    { [value |-> <<"0">>, cap |-> -1],
      [value |-> <<"x">>, cap |-> -1],
      [value |-> <<"-","2">>, cap |-> -2],
      [value |-> <<" ","1","x">>, cap |-> 1] }

\* the texts that are "0" or not numeric
UnboundedTexts == { <<"0">>, <<"x">> }

C16_WitnessNegative ==
    /\ DeleteDone
    /\ lastChange.valid
    /\ lastChange.value = <<"-","2">>
    /\ unlinkedImages # << >>
    /\ calls = << >>

=============================================================================
